---- MODULE Spec2Model ----
(***************************************************************************)
(* DataLens (src/app/page.tsx and its restyled twin src/unnamed/part_000): *)
(* a single React component holding five pieces of state, a naive CSV      *)
(* parser, asynchronous FileReader reads and one asynchronous call to an   *)
(* analysis service whose loosely typed answer is normalised into an       *)
(* AnalysisResult.                                                         *)
(*                                                                         *)
(* Text is a sequence of one-character strings.  JSON values are tagged    *)
(* records (JNull, JNum, JStr, JBool, JObj, JArr); `null` React state is   *)
(* the record Null.                                                        *)
(***************************************************************************)
EXTENDS Integers, Sequences, FiniteSets, TLC

VARIABLES
    fileData,    \* useState<FileData | null>
    analysis,    \* useState<AnalysisResult | null>
    loading,     \* useState(false)
    error,       \* useState<string | null>
    activeTab,   \* useState('summary')
    reads,       \* FileReader reads started and not yet delivered to onload
    requests,    \* analyzeData invocations suspended at an await, each with
                 \* the fileData its closure captured
    crashed,     \* a render threw: the component tree is unmounted
    disk,        \* the files the user can pick or drop (environment)
    service,     \* the answers the analysis endpoint can give (environment)
    variant,     \* which of the two pages is deployed
    download     \* the report file handed to the browser by the last step

vars ==
    <<fileData, analysis, loading, error, activeTab, reads, requests, crashed,
      disk, service, variant, download>>

Null == [null |-> TRUE]

-----------------------------------------------------------------------------
(* Characters and strings                                                  *)

NL == "\n"
COMMA == ","
SP == " "

\* String.prototype.trim strips white space and line terminators.
IsSpace(c) == c \in {" ", "\n", "\t", "\r"}

Min(a, b) == IF a < b THEN a ELSE b

\* text.trim()
Trim(s) ==
    LET keep == {i \in 1..Len(s) : ~IsSpace(s[i])}
    IN  IF keep = {} THEN <<>>
        ELSE LET first == CHOOSE i \in keep : \A j \in 1..(i - 1) : IsSpace(s[j])
                 last  == CHOOSE i \in keep : \A j \in (i + 1)..Len(s) : IsSpace(s[j])
             IN  SubSeq(s, first, last)

\* s.split(sep) for a one-character separator: always at least one piece.
Split(s, sep) ==
    LET at == {i \in 1..Len(s) : s[i] = sep}
        n  == Cardinality(at) + 1
        pos(k) == IF k = 0 THEN 0
                  ELSE IF k = n THEN Len(s) + 1
                  ELSE CHOOSE p \in at : Cardinality({q \in at : q < p}) = k - 1
    IN  [k \in 1..n |-> SubSeq(s, pos(k - 1) + 1, pos(k) - 1)]

\* name.endsWith(suffix)
EndsWith(s, suffix) ==
    /\ Len(suffix) <= Len(s)
    /\ SubSeq(s, Len(s) - Len(suffix) + 1, Len(s)) = suffix

-----------------------------------------------------------------------------
(* CSV ingestion                                                           *)

PreviewRows == 10

SAMPLE_CSV ==
    <<"N","a","m","e",",","A","g","e",",","S","a","l","a","r","y",",","D","e","p","a","r","t","m","e","n","t",",","E","x","p","e","r","i","e","n","c","e",",","P","e","r","f","o","r","m","a","n","c","e">>
    \o NL \o <<"J","o","h","n"," ","D","o","e",",","3","2",",","7","5","0","0","0",",","E","n","g","i","n","e","e","r","i","n","g",",","8",",","4",".","5">>
    \o NL \o <<"J","a","n","e"," ","S","m","i","t","h",",","2","8",",","6","5","0","0","0",",","M","a","r","k","e","t","i","n","g",",","5",",","4",".","2">>
    \o NL \o <<"B","o","b"," ","J","o","h","n","s","o","n",",","4","5",",","9","5","0","0","0",",","E","n","g","i","n","e","e","r","i","n","g",",","2","0",",","4",".","8">>
    \o NL \o <<"A","l","i","c","e"," ","W","i","l","l","i","a","m","s",",","3","5",",","8","5","0","0","0",",","S","a","l","e","s",",","1","2",",","4",".","3">>
    \o NL \o <<"C","h","a","r","l","i","e"," ","B","r","o","w","n",",","2","9",",","7","0","0","0","0",",","M","a","r","k","e","t","i","n","g",",","6",",","4",".","1">>
    \o NL \o <<"D","a","v","i","d"," ","D","a","v","i","s",",","5","2",",","1","2","0","0","0","0",",","E","n","g","i","n","e","e","r","i","n","g",",","2","8",",","4",".","9">>
    \o NL \o <<"E","m","m","a"," ","W","i","l","s","o","n",",","2","6",",","6","0","0","0","0",",","H","R",",","3",",","3",".","8">>
    \o NL \o <<"F","r","a","n","k"," ","M","i","l","l","e","r",",","3","8",",","8","8","0","0","0",",","S","a","l","e","s",",","1","5",",","4",".","4">>
    \o NL \o <<"G","r","a","c","e"," ","L","e","e",",","4","1",",","9","2","0","0","0",",","E","n","g","i","n","e","e","r","i","n","g",",","1","8",",","4",".","7">>
    \o NL \o <<"H","e","n","r","y"," ","T","a","y","l","o","r",",","3","0",",","7","2","0","0","0",",","M","a","r","k","e","t","i","n","g",",","7",",","4",".","0">>
    \o NL \o <<"I","r","i","s"," ","C","h","e","n",",","3","6",",","8","7","0","0","0",",","S","a","l","e","s",",","1","3",",","4",".","5">>
    \o NL \o <<"J","a","c","k"," ","M","a","r","t","i","n","e","z",",","2","5",",","5","8","0","0","0",",","H","R",",","2",",","3",".","7">>
    \o NL \o <<"K","a","r","e","n"," ","A","n","d","e","r","s","o","n",",","4","4",",","9","8","0","0","0",",","E","n","g","i","n","e","e","r","i","n","g",",","2","1",",","4",".","8">>
    \o NL \o <<"L","e","o"," ","T","h","o","m","p","s","o","n",",","3","3",",","7","9","0","0","0",",","M","a","r","k","e","t","i","n","g",",","9",",","4",".","3">>
    \o NL \o <<"M","a","r","y"," ","J","a","c","k","s","o","n",",","3","9",",","9","0","0","0","0",",","S","a","l","e","s",",","1","6",",","4",".","6">>

SAMPLE_NAME ==
    <<"s","a","m","p","l","e","_","d","a","t","a",".","c","s","v">>

\* const lines = text.trim().split('\n')
LinesNoTrim(text) == Split(text, NL)
Lines(text) == Split(Trim(text), NL)

\* lines[0].split(',').map(h => h.trim())
Cells(line) ==
    LET raw == Split(line, COMMA) IN [i \in 1..Len(raw) |-> Trim(raw[i])]

\* The one property name a plain object literal does not store: assigning a
\* string to obj['__proto__'] calls the inherited setter, which ignores it.
PROTO == <<"_", "_", "p", "r", "o", "t", "o", "_", "_">>

\* headers.reduce((obj, header, idx) => { obj[header] = values[idx] || '' }, {})
\* A later column with the same header overwrites an earlier one.
RowOf(headers, line) ==
    LET values == Cells(line)
        last(h) == CHOOSE i \in 1..Len(headers) :
                      /\ headers[i] = h
                      /\ \A j \in 1..Len(headers) : headers[j] = h => j <= i
    IN  [h \in {headers[i] : i \in 1..Len(headers)} \ {PROTO} |->
            IF last(h) <= Len(values) THEN values[last(h)] ELSE <<>>]

\* const text = event.target?.result as string: for a load event that carries
\* no string, text.trim() throws.  For a string nothing throws: split returns
\* at least one piece, so lines[0] is defined even for the empty text.
NoText == <<"undefined">>    \* not a text: texts hold one-character strings
parseCSVThrows(text) == text = NoText

\* parseCSV keeping the last rows instead of the first.
parseCSVTailPreview(text, fileName) ==
    LET lines   == Lines(text)
        headers == Cells(lines[1])
        data    == [i \in 1..(Len(lines) - 1) |-> RowOf(headers, lines[i + 1])]
    IN  [name    |-> fileName,
         size    |-> Len(text),
         rows    |-> Len(data),
         columns |-> Len(headers),
         headers |-> headers,
         preview |-> SubSeq(data, Len(data) - Min(Len(data), PreviewRows) + 1,
                            Len(data))]

parseCSV(text, fileName) ==
    LET lines   == Lines(text)
        headers == Cells(lines[1])
        data    == [i \in 1..(Len(lines) - 1) |-> RowOf(headers, lines[i + 1])]
    IN  [name    |-> fileName,
         size    |-> Len(text),
         rows    |-> Len(data),
         columns |-> Len(headers),
         headers |-> headers,
         preview |-> SubSeq(data, 1, Min(Len(data), PreviewRows))]

-----------------------------------------------------------------------------
(* JSON values, as response.json() and JSON.parse produce them             *)

JNull == [t |-> "null"]
JBool(b) == [t |-> "bool", v |-> b]
JNum(n) == [t |-> "num", v |-> n]
JStr(s) == [t |-> "str", v |-> s]
JArr(seq) == [t |-> "arr", v |-> seq]
JObj(fields) == [t |-> "obj", v |-> fields]

\* What reading a property that is not there yields.
Undefined == [t |-> "undefined"]

EmptyObj == JObj(<<>>)
EmptyArr == JArr(<<>>)

\* Truthiness that takes an empty object or array for a missing value.
TruthyNonEmpty(j) ==
    CASE j.t = "null"      -> FALSE
      [] j.t = "undefined" -> FALSE
      [] j.t = "bool"      -> j.v
      [] j.t = "num"       -> j.v # 0
      [] j.t = "str"       -> j.v # ""
      [] j.t = "obj"       -> DOMAIN j.v # {}
      [] j.t = "arr"       -> j.v # <<>>

\* ToBoolean: null, undefined, false, 0 and '' are falsy; every object and
\* every array (the empty ones too) is truthy.
Truthy(j) ==
    CASE j.t = "null"      -> FALSE
      [] j.t = "undefined" -> FALSE
      [] j.t = "bool"      -> j.v
      [] j.t = "num"       -> j.v # 0
      [] j.t = "str"       -> j.v # ""
      [] j.t = "obj"       -> TRUE
      [] j.t = "arr"       -> TRUE

\* a || b
Or(a, b) == IF Truthy(a) THEN a ELSE b

\* j.k throws a TypeError on null and undefined.
GetThrows(j) == j.t \in {"null", "undefined"}

\* j.k for a property name k that no primitive or array carries.
Get(j, k) == IF j.t = "obj" /\ k \in DOMAIN j.v THEN j.v[k] ELSE Undefined

\* j?.k
OptGet(j, k) == IF GetThrows(j) THEN Undefined ELSE Get(j, k)

\* JSON.parse on the strings the modelled service sends (a table: the parser
\* belongs to the runtime).  Anything else is not JSON.
JSONTexts ==
    [text |-> <<"{}", "null", "5",
                "{\"summary\":{\"completenessScore\":40}}",
                "{\"insights\":null}">>,
     value |-> <<EmptyObj, JNull, JNum(5),
                 JObj([summary |-> JObj([completenessScore |-> JNum(40)])]),
                 JObj([insights |-> JNull])>>]

JSONParseThrows(s) == \A i \in 1..Len(JSONTexts.text) : JSONTexts.text[i] # s

JSONParse(s) ==
    JSONTexts.value[CHOOSE i \in 1..Len(JSONTexts.text) : JSONTexts.text[i] = s]

\* Numbers are integers; a quotient is kept exact as num/den, NaN as 0/0.
NaN == [num |-> 0, den |-> 0]

\* ToNumber for the operand of `/` (numbers, booleans and plain objects).
ToNumberIsNaN(j) == j.t = "obj"
ToNumber(j) ==
    CASE j.t = "num"  -> j.v
      [] j.t = "bool" -> IF j.v THEN 1 ELSE 0

\* j / d
Divide(j, d) == IF ToNumberIsNaN(j) THEN NaN ELSE [num |-> ToNumber(j), den |-> d]

\* n.toFixed(2) for n = size / 1024: the nearest hundredth, the larger one on
\* a tie (size / 1024 is exact in binary floating point).
TwoDigits(d) == IF d < 10 THEN "0" \o ToString(d) ELSE ToString(d)
ToFixed2Truncating(size, unit) ==
    LET h == (size * 100) \div unit
    IN  ToString(h \div 100) \o "." \o TwoDigits(h % 100)
ToFixed2(size, unit) ==
    LET h == (size * 200 + unit) \div (2 * unit)
    IN  ToString(h \div 100) \o "." \o TwoDigits(h % 100)

-----------------------------------------------------------------------------
(* Analysis result normalisation (the body of analyzeData after the awaits) *)

Percent == 100
DefaultCompleteness == 85
BytesPerKB == 1024

DefaultDataQuality ==
    JObj([missingValues |-> EmptyObj, duplicateRows |-> JNum(0),
          dataTypeIssues |-> EmptyArr])
DefaultStatistics == EmptyObj
DefaultCorrelations == EmptyArr
DefaultPatterns ==
    JObj([trends |-> EmptyArr, distributions |-> EmptyObj, outliers |-> EmptyArr])
DefaultInsights == EmptyArr

\* `${(fileData.size / 1024).toFixed(2)} KB`
memorySize(fd) == ToFixed2(fd.size, BytesPerKB) \o " KB"

\* (parsedData.summary?.completenessScore || 85) / 100
completenessScore(parsedData) ==
    Divide(Or(OptGet(Get(parsedData, "summary"), "completenessScore"),
              JNum(DefaultCompleteness)),
           Percent)

\* parsedData.section ?? fallback
SectionNullish(parsedData, name, fallback) ==
    IF Get(parsedData, name).t \in {"null", "undefined"} THEN fallback
    ELSE Get(parsedData, name)

\* parsedData.section || fallback
Section(parsedData, name, fallback) == Or(Get(parsedData, name), fallback)

\* const analysisData: AnalysisResult = { ... }
analysisData(parsedData, fd) ==
    [summary |->
        [totalRows |-> fd.rows,
         totalColumns |-> fd.columns,
         completenessScore |-> completenessScore(parsedData),
         memorySize |-> memorySize(fd)],
     dataQuality  |-> Section(parsedData, "dataQuality", DefaultDataQuality),
     statistics   |-> Section(parsedData, "statistics", DefaultStatistics),
     correlations |-> Section(parsedData, "correlations", DefaultCorrelations),
     patterns     |-> Section(parsedData, "patterns", DefaultPatterns),
     insights     |-> Section(parsedData, "insights", DefaultInsights)]

\* A response of the endpoint, as the handler sees it:
\*   [kind |-> "reject"]                      fetch rejected
\*   [kind |-> "badbody", ok |-> b]           response.json() rejected
\*   [kind |-> "json", ok |-> b, data |-> j]  response.json() resolved to j
\* ok is the HTTP status being 2xx.

\* if (data.success && data.response)
Accepted(data) == Truthy(Get(data, "success")) /\ Truthy(Get(data, "response"))

\* typeof data.response === 'string' ? JSON.parse(data.response) : data.response
parsedDataOf(data) ==
    LET r == Get(data, "response")
    IN  IF r.t = "str" THEN JSONParse(r.v) ELSE r

\* Whether the try block of analyzeData ends in its catch clause.
analyzeThrows(resp) ==
    \/ resp.kind # "json"
    \/ GetThrows(resp.data)
    \/ /\ Accepted(resp.data)
       /\ LET r == Get(resp.data, "response")
          IN  \/ r.t = "str" /\ JSONParseThrows(r.v)
              \/ GetThrows(parsedDataOf(resp.data))

-----------------------------------------------------------------------------
(* Rendering.  HomePage builds the whole dashboard element tree whenever   *)
(* analysis is set, whichever tab is active, so every expression of the    *)
(* dashboard JSX is evaluated on each render.                              *)

Tabs == <<"summary", "quality", "statistics", "correlations", "patterns", "insights">>

Abs(n) == IF n < 0 THEN -n ELSE n

\* Math.abs(x.correlation) for an element the comparator can read; elements
\* without a numeric correlation compare as equal to everything (NaN).
HasNumber(x, k) == x.t = "obj" /\ k \in DOMAIN x.v /\ x.v[k].t = "num"

\* Whether the comparator (a, b) => |b.correlation| - |a.correlation| puts b
\* strictly before a.
Before(b, a) ==
    /\ HasNumber(a, "correlation") /\ HasNumber(b, "correlation")
    /\ Abs(b.v["correlation"].v) > Abs(a.v["correlation"].v)

\* Array.prototype.sort with that comparator: a stable insertion sort.
RECURSIVE Insert(_, _)
Insert(sorted, x) ==
    IF sorted = <<>> THEN <<x>>
    ELSE IF Before(x, sorted[Len(sorted)])
         THEN Append(Insert(SubSeq(sorted, 1, Len(sorted) - 1), x), sorted[Len(sorted)])
         ELSE Append(sorted, x)

RECURSIVE SortStep(_, _)
SortStep(done, rest) ==
    IF rest = <<>> THEN done ELSE SortStep(Insert(done, rest[1]), Tail(rest))

SortCorrelations(seq) == SortStep(<<>>, seq)

\* x.length > 0 for the values the model carries (numbers, booleans and plain
\* objects have no length).
NonEmptyList(x) ==
    \/ x.t = "arr" /\ Len(x.v) > 0
    \/ x.t = "str" /\ x.v # ""

\* (x || []).length > 0 && x.map(...) throws when x has a length and no map.
MapGuardedThrows(x) == Truthy(x) /\ NonEmptyList(x) /\ x.t # "arr"

\* (x || []).map(insight => ... insight.severity ...) throws for every truthy
\* x that is not an array, and for an array holding a null.
MapThrows(x) ==
    /\ Truthy(x)
    /\ \/ x.t # "arr"
       \/ \E i \in 1..Len(x.v) : GetThrows(x.v[i])

\* The correlations expression: .sort(...).slice(0, 10).map(corr => ...
\* corr.correlation.toFixed(3) ...).
CorrelationsThrow(c) ==
    /\ Truthy(c) /\ NonEmptyList(c)
    /\ \/ c.t # "arr"
       \/ \E i \in 1..Len(c.v) : GetThrows(c.v[i])
       \/ \E i \in 1..Len(c.v) : ~HasNumber(c.v[i], "correlation")

\* The preview table of the upload view: {row[header] || '-'}.  For the header
\* __proto__ the row has no such key of its own and row[header] is
\* Object.prototype, an object, which React refuses to render.
PreviewThrows(fd) ==
    /\ fd # Null
    /\ Len(fd.preview) > 0
    /\ \E i \in 1..Len(fd.headers) : fd.headers[i] = PROTO

\* Whether building the element tree of the current view throws.
RenderThrows(fd, an) ==
    IF an = Null THEN PreviewThrows(fd)
    ELSE \/ fd = Null                                       \* fileData.name
         \/ MapGuardedThrows(OptGet(an.dataQuality, "dataTypeIssues"))
         \/ CorrelationsThrow(an.correlations)
         \/ MapGuardedThrows(OptGet(an.patterns, "trends"))
         \/ MapGuardedThrows(OptGet(an.patterns, "outliers"))
         \/ MapThrows(an.insights)

\* The analysis object after a render: .sort() reorders the array held in
\* state in place.
Rendered(fd, an) ==
    IF an = Null \/ RenderThrows(fd, an) \/ an.correlations.t # "arr" THEN an
    ELSE [an EXCEPT !.correlations = JArr(SortCorrelations(an.correlations.v))]

\* A batch of state updates followed by the render it triggers.
Update(fd, an, ld, er, tab) ==
    /\ fileData' = fd
    /\ loading' = ld
    /\ error' = er
    /\ activeTab' = tab
    /\ analysis' = Rendered(fd, an)
    /\ crashed' = RenderThrows(fd, an)
    /\ download' = Null

-----------------------------------------------------------------------------
(* Environment: the user's files and the endpoint's answers                *)

MaxReads == 2       \* FileReader reads in flight at once
MaxRequests == 2    \* analyzeData invocations in flight at once

File(name, type, text) == [name |-> name, type |-> type, text |-> text]

CSV_TYPE == "text/csv"
DOT_CSV == <<".", "c", "s", "v">>

\* A well-formed CSV file ending in a newline, a file with a blank last
\* column and a ragged row, a file that is no CSV, and a file whose load
\* event carries no string result.
Files ==
    << File(<<"a", ".", "c", "s", "v">>, CSV_TYPE,
            <<"a", ",", "b", NL, "1", ",", "2", NL>>),
       File(<<"b", ".", "c", "s", "v">>, "",
            <<SP, "a", ",", "a", NL, NL, "1", ",", SP, "2", ",", "3">>),
       File(<<"n", ".", "t", "x", "t">>, "text/plain", <<"x">>),
       File(<<"x", ".", "c", "s", "v">>, CSV_TYPE, NoText) >>

Ok(data) == [kind |-> "json", ok |-> TRUE, data |-> data]
Answer(payload) == JObj([success |-> JBool(TRUE), response |-> payload])

Corr(a, b, c) ==
    JObj([column1 |-> JStr(a), column2 |-> JStr(b), correlation |-> JNum(c)])

FullPayload ==
    JObj([summary |-> JObj([totalRows |-> JNum(999), totalColumns |-> JNum(99),
                            completenessScore |-> JNum(40),
                            memorySize |-> JStr("1 GB")]),
          dataQuality |-> JObj([missingValues |-> JObj([a |-> JNum(1)]),
                                duplicateRows |-> JNum(2),
                                dataTypeIssues |-> JArr(<<JStr("a: mixed")>>)]),
          statistics |-> JObj([a |-> JObj([mean |-> JNum(1)])]),
          correlations |-> JArr(<<Corr("a", "b", 0), Corr("b", "a", -1)>>),
          patterns |-> JObj([trends |-> JArr(<<JStr("up")>>),
                             distributions |-> JObj([a |-> JStr("normal")]),
                             outliers |-> EmptyArr]),
          insights |-> JArr(<<JObj([title |-> JStr("t"), description |-> JStr("d"),
                                    severity |-> JStr("info")])>>)])

\* Sections that are present but incomplete.
PartialPayload ==
    JObj([dataQuality |-> EmptyObj,
          patterns |-> JObj([trends |-> JArr(<<JStr("up")>>)])])

Responses ==
    << [kind |-> "reject"],
       [kind |-> "badbody", ok |-> TRUE],
       Ok(JObj([success |-> JBool(FALSE)])),
       Ok(JObj([success |-> JBool(TRUE)])),
       Ok(Answer(JStr("not json"))),
       Ok(Answer(JStr("{}"))),
       Ok(Answer(EmptyObj)),
       Ok(Answer(FullPayload)),
       Ok(Answer(PartialPayload)),
       [kind |-> "json", ok |-> FALSE, data |-> Answer(FullPayload)] >>

-----------------------------------------------------------------------------
(* The component                                                           *)

Err(msg) == [msg |-> msg]
PARSE_ERROR == Err("Failed to parse CSV file. Please ensure it has valid CSV format.")
TYPE_ERROR == Err("Please upload a valid CSV file")
FAILED_ERROR == Err("Failed to analyze data. Please try again.")
CATCH_ERROR == Err("Error analyzing data. Please try again.")

\* The two pages: the same state and handlers, different markup.
PAGE == "src/app/page.tsx"
PART_000 == "src/unnamed/part_000"
Variants == {PAGE, PART_000}

Remove(seq, i) == SubSeq(seq, 1, i - 1) \o SubSeq(seq, i + 1, Len(seq))

\* useState initial values; nothing is in flight.
InitComponent ==
    /\ fileData = Null
    /\ analysis = Null
    /\ loading = FALSE
    /\ error = Null
    /\ activeTab = Tabs[1]
    /\ reads = <<>>
    /\ requests = <<>>
    /\ crashed = FALSE
    /\ variant \in Variants
    /\ download = Null

Init ==
    /\ InitComponent
    /\ disk = Files
    /\ service = Responses

\* Which of the two views HomePage returns.
DashboardView == analysis # Null
UploadView == ~crashed /\ analysis = Null

\* <input type="file" onChange={handleFileUpload}>, upload view.
handleFileUpload(file) ==
    /\ UploadView
    /\ Len(reads) < MaxReads
    /\ reads' = Append(reads, file)
    /\ Update(fileData, analysis, loading, Null, activeTab)
    /\ UNCHANGED <<requests, disk, service, variant>>

\* The test accepting whatever was dropped.
IsCsvFileAnyFile(file) == file # Null

\* file?.type === 'text/csv' || file?.name.endsWith('.csv')
IsCsvFile(file) ==
    /\ file # Null
    /\ \/ file.type = CSV_TYPE
       \/ EndsWith(file.name, DOT_CSV)

\* onDrop={handleDragDrop}, upload view; file is Null when nothing droppable
\* was dragged in.
handleDragDrop(file) ==
    /\ UploadView
    /\ IF IsCsvFile(file)
       THEN /\ Len(reads) < MaxReads
            /\ reads' = Append(reads, file)
            /\ Update(fileData, analysis, loading, error, activeTab)
       ELSE /\ reads' = reads
            /\ Update(fileData, analysis, loading, TYPE_ERROR, activeTab)
    /\ UNCHANGED <<requests, disk, service, variant>>

\* readerOnload storing the state changes of the try block before the throw.
readerOnloadClearsFirst(i) ==
    /\ ~crashed
    /\ i \in 1..Len(reads)
    /\ reads' = Remove(reads, i)
    /\ IF parseCSVThrows(reads[i].text)
       THEN Update(fileData, Null, loading, PARSE_ERROR, activeTab)
       ELSE Update(parseCSV(reads[i].text, reads[i].name), Null, loading, error,
                   activeTab)
    /\ UNCHANGED <<requests, disk, service, variant>>

\* readerOnload without setAnalysis(null).
readerOnloadKeepsAnalysis(i) ==
    /\ ~crashed
    /\ i \in 1..Len(reads)
    /\ reads' = Remove(reads, i)
    /\ IF parseCSVThrows(reads[i].text)
       THEN Update(fileData, analysis, loading, PARSE_ERROR, activeTab)
       ELSE Update(parseCSV(reads[i].text, reads[i].name), analysis, loading, error,
                   activeTab)
    /\ UNCHANGED <<requests, disk, service, variant>>

\* A read honoured only while it is the most recently started one.
ReadDeliverableLatestOnly(i) == ~crashed /\ i \in 1..Len(reads) /\ i = Len(reads)

\* reader.readAsText(file) was called and onload has not run yet: nothing
\* aborts the reader or takes its handler away.
ReadDeliverable(i) == ~crashed /\ i \in 1..Len(reads)

\* reader.onload of the i-th pending read (both handlers install the same one).
readerOnload(i) ==
    /\ ReadDeliverable(i)
    /\ reads' = Remove(reads, i)
    /\ IF parseCSVThrows(reads[i].text)
       THEN Update(fileData, analysis, loading, PARSE_ERROR, activeTab)
       ELSE Update(parseCSV(reads[i].text, reads[i].name), Null, loading, error,
                   activeTab)
    /\ UNCHANGED <<requests, disk, service, variant>>

\* The Analyze button: rendered in the upload view once a file is loaded,
\* disabled={loading}.
AnalyzeEnabledIgnoringLoading == UploadView /\ fileData # Null
\* The same button offered in the dashboard as well.
AnalyzeEnabledInEveryView == ~crashed /\ fileData # Null /\ ~loading
AnalyzeEnabled == UploadView /\ fileData # Null /\ ~loading

\* analyzeData up to its first await.
analyzeData ==
    /\ AnalyzeEnabled
    /\ Len(requests) < MaxRequests
    /\ requests' = Append(requests, [fileData |-> fileData])
    /\ Update(fileData, analysis, TRUE, Null, activeTab)
    /\ UNCHANGED <<reads, disk, service, variant>>

\* analyzeResume with setLoading(false) on the success path only.
analyzeResumeNoFinally(i, resp) ==
    /\ ~crashed
    /\ i \in 1..Len(requests)
    /\ requests' = Remove(requests, i)
    /\ IF analyzeThrows(resp)
       THEN Update(fileData, analysis, loading, CATCH_ERROR, activeTab)
       ELSE IF Accepted(resp.data)
       THEN Update(fileData,
                   analysisData(parsedDataOf(resp.data), requests[i].fileData),
                   FALSE, error, Tabs[1])
       ELSE Update(fileData, analysis, loading, FAILED_ERROR, activeTab)
    /\ UNCHANGED <<reads, disk, service, variant>>

\* analyzeResume without setActiveTab('summary').
analyzeResumeKeepsTab(i, resp) ==
    /\ ~crashed
    /\ i \in 1..Len(requests)
    /\ requests' = Remove(requests, i)
    /\ IF analyzeThrows(resp)
       THEN Update(fileData, analysis, FALSE, CATCH_ERROR, activeTab)
       ELSE IF Accepted(resp.data)
       THEN Update(fileData,
                   analysisData(parsedDataOf(resp.data), requests[i].fileData),
                   FALSE, error, activeTab)
       ELSE Update(fileData, analysis, FALSE, FAILED_ERROR, activeTab)
    /\ UNCHANGED <<reads, disk, service, variant>>

\* analyzeData from the await on, for the i-th suspended invocation and the
\* response it receives; `finally` clears loading on every path.
analyzeResume(i, resp) ==
    /\ ~crashed
    /\ i \in 1..Len(requests)
    /\ requests' = Remove(requests, i)
    /\ IF analyzeThrows(resp)
       THEN Update(fileData, analysis, FALSE, CATCH_ERROR, activeTab)
       ELSE IF Accepted(resp.data)
       THEN Update(fileData,
                   analysisData(parsedDataOf(resp.data), requests[i].fileData),
                   FALSE, error, Tabs[1])
       ELSE Update(fileData, analysis, FALSE, FAILED_ERROR, activeTab)
    /\ UNCHANGED <<reads, disk, service, variant>>

\* const parsed = parseCSV(SAMPLE_CSV, 'sample_data.csv')
SampleData == parseCSV(SAMPLE_CSV, SAMPLE_NAME)

\* The Load Sample Data button: upload view, no file loaded.
loadSampleData ==
    /\ UploadView
    /\ fileData = Null
    /\ Update(SampleData, Null, loading, Null, activeTab)
    /\ UNCHANGED <<reads, requests, disk, service, variant>>

\* resetAnalysis giving up the run in progress as well.
resetAnalysisStopsLoading ==
    /\ ~crashed
    /\ DashboardView \/ fileData # Null
    /\ Update(Null, Null, FALSE, Null, Tabs[1])
    /\ UNCHANGED <<reads, requests, disk, service, variant>>

\* New Analysis (dashboard) and Clear (upload view, file loaded).
resetAnalysis ==
    /\ ~crashed
    /\ DashboardView \/ fileData # Null
    /\ Update(Null, Null, loading, Null, Tabs[1])
    /\ UNCHANGED <<reads, requests, disk, service, variant>>

\* <Tabs value={activeTab} onValueChange={setActiveTab}>, dashboard.
setActiveTab(tab) ==
    /\ ~crashed
    /\ DashboardView
    /\ tab # activeTab
    /\ Update(fileData, analysis, loading, error, tab)
    /\ UNCHANGED <<reads, requests, disk, service, variant>>

\* JSON.stringify of a decoded JSON value: a property holding undefined is
\* left out, undefined inside an array becomes null.
RECURSIVE Stringify(_)
Stringify(j) ==
    CASE j.t = "obj" ->
            JObj([k \in {f \in DOMAIN j.v : j.v[f].t # "undefined"} |-> Stringify(j.v[k])])
      [] j.t = "arr" ->
            JArr([i \in 1..Len(j.v) |->
                    IF j.v[i].t = "undefined" THEN JNull ELSE Stringify(j.v[i])])
      [] OTHER -> j

\* JSON.stringify of a number: NaN is written as null.
StringifyNumber(q) == IF q.den = 0 THEN JNull ELSE q

\* JSON.parse of a document JSON.stringify wrote.
RECURSIVE Destringify(_)
Destringify(d) ==
    CASE d.t = "obj" -> JObj([k \in DOMAIN d.v |-> Destringify(d.v[k])])
      [] d.t = "arr" -> JArr([i \in 1..Len(d.v) |-> Destringify(d.v[i])])
      [] OTHER -> d

TIMESTAMP == "new Date().toISOString()"

\* JSON.stringify(report, null, 2), as the document it writes.
Report(fd, an) ==
    [fileName     |-> fd.name,
     timestamp    |-> TIMESTAMP,
     summary      |-> [an.summary EXCEPT
                          !.completenessScore = StringifyNumber(an.summary.completenessScore)],
     dataQuality  |-> Stringify(an.dataQuality),
     statistics   |-> Stringify(an.statistics),
     correlations |-> Stringify(an.correlations),
     patterns     |-> Stringify(an.patterns),
     insights     |-> Stringify(an.insights)]

\* The Download Report button of the dashboard; no state setter is called.
downloadReport ==
    /\ ~crashed
    /\ DashboardView
    /\ analysis # Null /\ fileData # Null
    /\ download' = Report(fileData, analysis)
    /\ UNCHANGED <<fileData, analysis, loading, error, activeTab, reads, requests,
                   crashed, disk, service, variant>>

\* The error banner: {error && ...} at the top of the upload view.
ErrorShown == UploadView /\ error # Null

\* The X button of the banner, which only part_000 has.
DismissEnabled == variant = PART_000 /\ ErrorShown

\* onClick={() => setError(null)}
dismissError ==
    /\ DismissEnabled
    /\ Update(fileData, analysis, loading, Null, activeTab)
    /\ UNCHANGED <<reads, requests, disk, service, variant>>

Next ==
    \/ \E i \in 1..Len(disk) : handleFileUpload(disk[i])
    \/ \E i \in 0..Len(disk) : handleDragDrop(IF i = 0 THEN Null ELSE disk[i])
    \/ \E i \in 1..Len(reads) : readerOnload(i)
    \/ analyzeData
    \/ \E i \in 1..Len(requests), r \in 1..Len(service) : analyzeResume(i, service[r])
    \/ loadSampleData
    \/ resetAnalysis
    \/ \E t \in 1..Len(Tabs) : setActiveTab(Tabs[t])
    \/ dismissError
    \/ downloadReport

Spec == Init /\ [][Next]_vars

-----------------------------------------------------------------------------
(* Input universes for the two data contracts.  The component is the same; *)
(* only what the user has on disk and what the endpoint answers differ.    *)

MaxLen == 3      \* every text of at most this many characters is tried
MaxRows == 11    \* and a header followed by up to this many lines

Alphabet == <<"a", COMMA, NL, SP>>

RECURSIVE TextsOfLen(_)
TextsOfLen(n) ==
    IF n = 0 THEN {<<>>}
    ELSE {Append(t, Alphabet[c]) : t \in TextsOfLen(n - 1), c \in 1..Len(Alphabet)}

\* "h" followed by k lines "x", the even-numbered ones blank, then `blank`
\* further newlines.
Ladder(k, blank) ==
    [i \in 1..(1 + 2 * k + blank) |->
        IF i = 1 THEN "h"
        ELSE IF i > 1 + 2 * k THEN NL
        ELSE IF i % 2 = 0 THEN NL
        ELSE IF i % 4 = 1 THEN SP ELSE "x"]

\* A file with a column named __proto__, with and without a data line.
ProtoTexts ==
    {PROTO \o <<COMMA, "a">>,
     PROTO \o <<COMMA, "a", NL, "1", COMMA, "2">>,
     <<"a", COMMA>> \o PROTO \o <<NL, "1", COMMA, "2">>}

Texts ==
    UNION {TextsOfLen(n) : n \in 0..MaxLen}
        \cup {Ladder(k, b) : k \in 0..MaxRows, b \in 0..2}
        \cup ProtoTexts

UPLOAD_NAME == <<"u", ".", "c", "s", "v">>

InitParse ==
    /\ InitComponent
    /\ \E t \in Texts : disk = <<File(UPLOAD_NAME, CSV_TYPE, t)>>
    /\ service = <<Ok(Answer(EmptyObj))>>

SpecParse == InitParse /\ [][Next]_vars

\* A CSV text of 2048 characters: four lines of eight cells, each line ended
\* by a newline.
KB2_TEXT ==
    [i \in 1..(2 * BytesPerKB) |->
        IF i % 512 = 0 THEN NL ELSE IF i % 64 = 0 THEN COMMA ELSE "x"]

SectionNames == <<"dataQuality", "statistics", "correlations", "patterns", "insights">>

With(obj, key, value) ==
    JObj([k \in DOMAIN obj.v \cup {key} |-> IF k = key THEN value ELSE obj.v[k]])
Without(obj, key) == JObj([k \in DOMAIN obj.v \ {key} |-> obj.v[k]])

\* What a section may hold: well-formed, empty, incomplete, falsy, mistyped.
SectionValues(name) ==
    {FullPayload.v[name], EmptyObj, EmptyArr,
     JObj([duplicateRows |-> JNum(3)]), JObj([trends |-> JArr(<<JStr("up")>>)]),
     JArr(<<Corr("a", "b", 1), Corr("a", "c", -1), Corr("b", "c", 2)>>),
     JNull, JNum(0), JStr(""), JBool(FALSE), JNum(7)}

\* Completeness scores inside, on the edge of and outside 0..100, and values
\* that are no numbers.
ScoreValues ==
    {JNum(p) : p \in {-50, -1, 0, 1, 40, 85, 100, 101, 150}}
        \cup {JNull, JBool(TRUE), JBool(FALSE), EmptyObj}

SummaryValues ==
    {JNull, EmptyObj, JNum(3), FullPayload.v["summary"]}
        \cup {JObj([completenessScore |-> c]) : c \in ScoreValues}

Payloads ==
    {With(EmptyObj, SectionNames[n], v) :
        n \in 1..Len(SectionNames),
        v \in UNION {SectionValues(SectionNames[m]) : m \in 1..Len(SectionNames)}}
    \cup {With(FullPayload, SectionNames[n], JNull) : n \in 1..Len(SectionNames)}
    \cup {Without(FullPayload, SectionNames[n]) : n \in 1..Len(SectionNames)}
    \cup {With(EmptyObj, "summary", v) : v \in SummaryValues}
    \cup {With(FullPayload, "summary", v) : v \in {JNull, EmptyObj}}
    \cup {FullPayload, PartialPayload, JNum(5), JBool(TRUE), EmptyArr}
    \cup {JStr(JSONTexts.text[n]) : n \in 1..Len(JSONTexts.text)}
    \cup {JStr("not json")}

InitNormalize ==
    /\ InitComponent
    /\ \/ /\ disk = <<Files[1]>>
          /\ \E payload \in Payloads : service = <<Ok(Answer(payload))>>
       \/ /\ disk = <<File(UPLOAD_NAME, CSV_TYPE, KB2_TEXT)>>
          /\ \E payload \in {EmptyObj, JStr("{}")} : service = <<Ok(Answer(payload))>>

SpecNormalize == InitNormalize /\ [][Next]_vars

-----------------------------------------------------------------------------
(* Properties                                                              *)

\* The text a loaded dataset was read from (file names are unique on disk).
SourceText(name) ==
    IF name = SAMPLE_NAME THEN SAMPLE_CSV
    ELSE disk[CHOOSE i \in 1..Len(disk) : disk[i].name = name].text

\* Its lines once the surrounding white space is stripped.
SampleLines == Split(Trim(SAMPLE_CSV), NL)
SourceLines(name) ==
    IF name = SAMPLE_NAME THEN SampleLines ELSE Split(Trim(SourceText(name)), NL)

\* An attempt fails when the try block throws or the success test is false.
Fails(resp) == analyzeThrows(resp) \/ ~Accepted(resp.data)

\* C1: whenever an analysis attempt fails (fetch rejects, the body does not
\* decode, success is false or the response is missing, or a string payload
\* is not JSON), the resuming analyzeData sets an error message, sets loading
\* to false and leaves analysis and fileData as they were, so that analyze is
\* available again whenever a dataset is loaded.
C1_FailureKeepsData ==
    [][\A i \in 1..Len(requests), r \in 1..Len(service) :
          (analyzeResume(i, service[r]) /\ Fails(service[r])) =>
              /\ error' \in {CATCH_ERROR, FAILED_ERROR}
              /\ loading' = FALSE
              /\ analysis' = analysis
              /\ fileData' = fileData
              /\ fileData # Null => AnalyzeEnabled']_vars

\* C1 witness: a failed attempt has left its error next to a usable dataset.
C1_Witness ==
    /\ error = CATCH_ERROR
    /\ fileData # Null
    /\ requests = <<>>
    /\ AnalyzeEnabled

\* C2: at most one analysis request is in flight, and while one is in flight
\* the analyze action is not available.
C2_OneRequest ==
    /\ Len(requests) <= 1
    /\ requests # <<>> => ~AnalyzeEnabled

\* C2 witness: a request is in flight while a different dataset, loaded after
\* a reset, shows the (disabled) analyze button.
C2_Witness ==
    /\ Len(requests) = 1
    /\ UploadView
    /\ fileData # Null
    /\ fileData # requests[1].fileData

Defined(j) == j.t # "undefined"

\* Every field the AnalysisResult interface declares is there.
FullyPopulated(an) ==
    /\ \A k \in {"missingValues", "duplicateRows", "dataTypeIssues"} :
          Defined(OptGet(an.dataQuality, k))
    /\ \A k \in {"trends", "distributions", "outliers"} :
          Defined(OptGet(an.patterns, k))
    /\ \A k \in {"statistics", "correlations", "insights"} : Defined(an[k])
    /\ DOMAIN an.summary =
          {"totalRows", "totalColumns", "completenessScore", "memorySize"}

\* C3 as stated: every committed AnalysisResult is fully populated, also when
\* the payload supplies a section that is present but partial.
C3_FullyPopulated == analysis # Null => FullyPopulated(analysis)

\* The request of a step that commits a result, and its payload.
Commits(i, r) ==
    /\ i \in 1..Len(requests)
    /\ analyzeResume(i, service[r])
    /\ ~Fails(service[r])
PayloadOf(r) == parsedDataOf(service[r].data)

\* The text of n hundredths of a kilobyte.
Hundredths(n) == ToString(n \div 100) \o "." \o TwoDigits(n % 100) \o " KB"

\* C4: the locally derived summary fields of a committed result depend only
\* on the dataset the request was made for: totalRows and totalColumns are
\* its rows and columns, memorySize is its size / 1024 to the nearest
\* hundredth followed by ' KB', whatever the payload's summary says.
C4_SummaryFromDataset ==
    [][\A i \in 1..Len(requests), r \in 1..Len(service) :
          Commits(i, r) =>
              LET fd == requests[i].fileData
                  sm == analysis'.summary
              IN  /\ sm.totalRows = fd.rows
                  /\ sm.totalColumns = fd.columns
                  /\ \E n \in 0..fd.size :
                        /\ sm.memorySize = Hundredths(n)
                        /\ 2 * BytesPerKB * n - BytesPerKB <= 200 * fd.size
                        /\ 200 * fd.size < 2 * BytesPerKB * n + BytesPerKB]_vars

\* C4 witness: a result committed from a payload whose summary contradicts
\* the dataset.
C4_Witness ==
    /\ analysis # Null
    /\ service = <<Ok(Answer(FullPayload))>>
    /\ Get(Get(FullPayload, "summary"), "totalRows") # JNum(analysis.summary.totalRows)
    /\ analysis.summary.memorySize # Get(Get(FullPayload, "summary"), "memorySize").v

DefaultOf(name) ==
    CASE name = "dataQuality"  -> DefaultDataQuality
      [] name = "statistics"   -> DefaultStatistics
      [] name = "correlations" -> DefaultCorrelations
      [] name = "patterns"     -> DefaultPatterns
      [] name = "insights"     -> DefaultInsights

Count(seq, x) == Cardinality({i \in 1..Len(seq) : seq[i] = x})

\* The committed section is the given value; for an array of correlations,
\* the same entries in the order the dashboard render has sorted them into.
Holds(committed, value) ==
    \/ committed = value
    \/ /\ committed.t = "arr" /\ value.t = "arr"
       /\ committed.v = SortCorrelations(value.v)
       /\ \A i \in 1..Len(value.v) :
             Count(committed.v, value.v[i]) = Count(value.v, value.v[i])

\* C5 as stated: a section the payload contains, whatever its value, is
\* committed verbatim; a section it does not contain gets the default.
C5_PresentVerbatim ==
    [][\A i \in 1..Len(requests), r \in 1..Len(service) :
          Commits(i, r) =>
              \A n \in 1..Len(SectionNames) :
                  LET name == SectionNames[n]
                      payload == PayloadOf(r)
                  IN  IF payload.t = "obj" /\ name \in DOMAIN payload.v
                      THEN Holds(analysis'[name], payload.v[name])
                      ELSE analysis'[name] = DefaultOf(name)]_vars

\* The falsy JSON values, spelled out.
Falsy(j) == j \in {JNull, JBool(FALSE), JNum(0), JStr("")}

\* C5 amended: a section the payload contains with a truthy value (any object
\* or array, empty ones included) is committed as it is, with no merging
\* inside it; a section that is absent, null, false, 0 or '' gets the
\* default.  (Of a correlations array the entries are kept; the dashboard
\* render sorts them in place.)
C5_TruthyVerbatim ==
    [][\A i \in 1..Len(requests), r \in 1..Len(service) :
          Commits(i, r) =>
              \A n \in 1..Len(SectionNames) :
                  LET name == SectionNames[n]
                      payload == PayloadOf(r)
                  IN  IF /\ payload.t = "obj"
                         /\ name \in DOMAIN payload.v
                         /\ ~Falsy(payload.v[name])
                      THEN Holds(analysis'[name], payload.v[name])
                      ELSE analysis'[name] = DefaultOf(name)]_vars

\* C5 witness: a result committed from a payload with a null section, which
\* holds the default, next to sections taken from the payload.
C5_Witness ==
    /\ analysis # Null
    /\ service = <<Ok(Answer(With(FullPayload, "insights", JNull)))>>
    /\ analysis.insights = DefaultInsights
    /\ analysis.patterns = FullPayload.v["patterns"]

\* The payload's summary.completenessScore, Undefined when there is none.
ScoreOf(payload) == OptGet(Get(payload, "summary"), "completenessScore")

\* C6 as stated: the committed completenessScore is p / 100 whenever the
\* payload carries summary.completenessScore = p with p in 0..100, p = 0
\* included, and 0.85 when the payload has no summary or no score in it.
C6_ScoreIsPercent ==
    (analysis # Null /\ Len(service) = 1) =>
        LET p == ScoreOf(PayloadOf(1))
        IN  /\ (p.t = "num" /\ p.v \in 0..100) =>
                  analysis.summary.completenessScore = [num |-> p.v, den |-> 100]
            /\ ~Defined(p) =>
                  analysis.summary.completenessScore = [num |-> 85, den |-> 100]

\* num / den lies in [0, 1].
InUnitInterval(q) == q.den > 0 /\ 0 <= q.num /\ q.num <= q.den

\* C7 as stated: the committed completenessScore lies in [0, 1] whatever
\* number the payload supplied.
C7_ScoreInUnitInterval ==
    (analysis # Null /\ Len(service) = 1) =>
        LET p == ScoreOf(PayloadOf(1))
        IN  (p.t = "num" \/ ~Defined(p)) =>
                InUnitInterval(analysis.summary.completenessScore)

\* C8: a successful response whose payload is the empty object, sent as an
\* object or as the string "{}", is committed, not reported as an error, and
\* gives completenessScore 0.85, missingValues {}, duplicateRows 0,
\* dataTypeIssues [], correlations [] and insights [], with memorySize from
\* the dataset size alone (2048 characters give "2.00 KB").
C8_EmptyPayloadDefaults ==
    [][\A i \in 1..Len(requests), r \in 1..Len(service) :
          (analyzeResume(i, service[r])
              /\ service[r] \in {Ok(Answer(EmptyObj)), Ok(Answer(JStr("{}")))}) =>
              /\ analysis' # Null
              /\ error' = error
              /\ analysis'.summary.completenessScore = [num |-> 85, den |-> 100]
              /\ analysis'.dataQuality =
                    JObj([missingValues |-> EmptyObj, duplicateRows |-> JNum(0),
                          dataTypeIssues |-> EmptyArr])
              /\ analysis'.correlations = EmptyArr
              /\ analysis'.insights = EmptyArr
              /\ requests[i].fileData.size = 2048 =>
                    analysis'.summary.memorySize = "2.00 KB"
              /\ requests[i].fileData = SampleData =>
                    analysis'.summary.memorySize = "0.58 KB"]_vars

\* C8 witness: the empty payload committed for the 2048-character file.
C8_Witness ==
    /\ service = <<Ok(Answer(EmptyObj))>>
    /\ analysis # Null
    /\ fileData # Null
    /\ fileData.size = 2048
    /\ analysis.summary.memorySize = "2.00 KB"
    /\ error = Null

\* Newlines of the text (every one starts a further line).
Newlines(text) == Cardinality({i \in 1..Len(text) : text[i] = NL})

\* Newlines that have a non-blank character somewhere before and somewhere
\* after them.
InnerNewlines(text) ==
    Cardinality({i \in 1..Len(text) :
        /\ text[i] = NL
        /\ \E j \in 1..(i - 1) : ~IsSpace(text[j])
        /\ \E j \in (i + 1)..Len(text) : ~IsSpace(text[j])})

\* C9 as stated: a header line followed by K further lines, blank and trailing
\* ones included, gives rows = K and min(K, 10) preview rows.
C9_RowsCountEveryLine ==
    fileData # Null =>
        LET K == Newlines(SourceText(fileData.name))
        IN  /\ fileData.rows = K
            /\ Len(fileData.preview) = Min(K, PreviewRows)

\* C9 amended: rows = K and preview length = min(K, 10) where K counts the
\* lines after the header once leading and trailing white space, blank
\* leading and trailing lines included, has been stripped from the text;
\* blank lines in between count.
C9_RowsCountInnerLines ==
    fileData # Null =>
        LET K == InnerNewlines(SourceText(fileData.name))
        IN  /\ fileData.rows = K
            /\ Len(fileData.preview) = Min(K, PreviewRows)

\* C9 witness: an uploaded text of more than ten rows that ends in a newline.
C9_Witness ==
    /\ fileData # Null
    /\ fileData.name = UPLOAD_NAME
    /\ fileData.rows > PreviewRows
    /\ LET text == SourceText(fileData.name) IN text[Len(text)] = NL

\* C10: whenever a dataset is loaded, its preview has min(rows, 10) rows, its
\* column count is the number of headers, and the preview rows are the first
\* rows of the file, in file order.
C10_PreviewIsPrefix ==
    fileData # Null =>
        LET lines == SourceLines(fileData.name)
        IN  /\ Len(fileData.preview) = Min(fileData.rows, PreviewRows)
            /\ fileData.columns = Len(fileData.headers)
            /\ \A i \in 1..Len(fileData.preview) :
                  fileData.preview[i] = RowOf(fileData.headers, lines[i + 1])

\* C10 witness: an uploaded dataset with more rows than the preview keeps.
C10_Witness ==
    /\ fileData # Null
    /\ fileData.name = UPLOAD_NAME
    /\ fileData.rows > PreviewRows
    /\ Len(fileData.preview) = PreviewRows

\* The value the line gives column i: the trimmed i-th cell, '' when the line
\* has fewer cells.
ValueAt(line, i) ==
    LET raw == Split(line, COMMA)
    IN  IF i <= Len(raw) THEN Trim(raw[i]) ELSE <<>>

\* C11: every preview row has exactly the header names as its keys, and maps
\* each header to the trimmed value of the last column of that name ('' when
\* the line has no such column); values beyond the last header are dropped.
C11_RowsPairHeaders ==
    fileData # Null =>
        LET lines   == SourceLines(fileData.name)
            headers == fileData.headers
        IN  /\ Len(headers) = Len(Split(lines[1], COMMA))
            /\ \A i \in 1..Len(headers) : headers[i] = Trim(Split(lines[1], COMMA)[i])
            /\ \A k \in 1..Len(fileData.preview) :
                  /\ DOMAIN fileData.preview[k] = {headers[i] : i \in 1..Len(headers)}
                  /\ \A i \in 1..Len(headers) :
                        (\A j \in (i + 1)..Len(headers) : headers[j] # headers[i])
                            => fileData.preview[k][headers[i]] = ValueAt(lines[k + 1], i)

\* The i-th pending read completes in this step.
Loads(i) == i \in 1..Len(reads) /\ reads' = Remove(reads, i)

\* C12: a read whose parse throws sets the parse error and leaves fileData and
\* analysis as they were.
C12_ParseFailureKeepsState ==
    [][\A i \in 1..Len(reads) :
          Loads(i) /\ parseCSVThrows(reads[i].text) =>
              /\ error' = PARSE_ERROR
              /\ fileData' = fileData
              /\ analysis' = analysis]_vars

\* C12 witness: the parse error is showing over a loaded dataset while its
\* analysis is committed.
C12_Witness ==
    /\ error = PARSE_ERROR
    /\ fileData # Null
    /\ analysis # Null
    /\ ~crashed

\* A text with no lines: empty, or white space only.
Blank(text) == \A i \in 1..Len(text) : IsSpace(text[i])

\* C13: a file whose text has no lines never becomes the loaded dataset (its
\* read ends in the parse error instead).
C13_BlankFileRejected ==
    fileData # Null => ~Blank(SourceText(fileData.name))

\* The response arrived with an HTTP status outside 200..299.
NonSuccessStatus(resp) == resp.kind # "reject" /\ ~resp.ok

\* C14: a response with a non-success HTTP status leaves analysis as it was
\* and sets one of the two analysis errors, whatever its body holds.
C14_StatusChecked ==
    [][\A i \in 1..Len(requests), r \in 1..Len(service) :
          (analyzeResume(i, service[r]) /\ NonSuccessStatus(service[r])) =>
              /\ analysis' = analysis
              /\ error' \in {CATCH_ERROR, FAILED_ERROR}]_vars

\* The network eventually answers or fails every request it was sent.
Completion == \E i \in 1..Len(requests), r \in 1..Len(service) : analyzeResume(i, service[r])

SpecLive == Spec /\ WF_vars(Completion)

\* The two outcomes of a completing attempt.
CommitOutcome(i, r) ==
    /\ ~Fails(service[r])
    /\ analysis' = Rendered(fileData, analysisData(PayloadOf(r), requests[i].fileData))
    /\ analysis' # Null
    /\ error' = error

ErrorOutcome(i, r) ==
    /\ error' \in {CATCH_ERROR, FAILED_ERROR}
    /\ analysis' = analysis

\* C15: every request in flight eventually completes and loading does not stay
\* true; the completing step sets loading to false and either commits a result
\* and leaves error alone, or sets an error and leaves analysis alone, never
\* both.
C15_RequestsComplete ==
    /\ (requests # <<>>) ~> (requests = <<>>)
    /\ loading ~> ~loading
    /\ [][\A i \in 1..Len(requests), r \in 1..Len(service) :
             analyzeResume(i, service[r]) =>
                 /\ loading' = FALSE
                 /\ CommitOutcome(i, r) \/ ErrorOutcome(i, r)
                 /\ ~(CommitOutcome(i, r) /\ ErrorOutcome(i, r))]_vars

\* C15 witness: an attempt has completed with a committed result while an
\* error set by something else (a rejected drop) is still in place.
C15_Witness ==
    /\ requests = <<>>
    /\ ~loading
    /\ analysis # Null
    /\ error = TYPE_ERROR

\* C16: while an analysis run is in progress no AnalysisResult is committed.
C16_NoResultWhileLoading == loading => analysis = Null

\* C16 witness: a run is in progress for a dataset the user has already
\* cleared.
C16_Witness ==
    /\ loading
    /\ Len(requests) = 1
    /\ fileData = Null
    /\ analysis = Null

\* fd is the dataset of the file called name with the given text, and nothing
\* else.
DatasetOf(fd, name, text) ==
    LET lines == Split(Trim(text), NL)
    IN  /\ DOMAIN fd = {"name", "size", "rows", "columns", "headers", "preview"}
        /\ fd.name = name
        /\ fd.size = Len(text)
        /\ fd.rows = Len(lines) - 1
        /\ fd.columns = Len(Split(lines[1], COMMA))
        /\ fd.headers = Cells(lines[1])
        /\ Len(fd.preview) = Min(fd.rows, PreviewRows)

\* C17: a read that parses, and a sample load, replace fileData by the dataset
\* of the file just read and set analysis to null.
C17_LoadReplaces ==
    [][/\ \A i \in 1..Len(reads) :
             Loads(i) /\ ~parseCSVThrows(reads[i].text) =>
                 /\ fileData' # Null
                 /\ DatasetOf(fileData', reads[i].name, reads[i].text)
                 /\ analysis' = Null
       /\ loadSampleData =>
             /\ fileData' # Null
             /\ DatasetOf(fileData', SAMPLE_NAME, SAMPLE_CSV)
             /\ analysis' = Null]_vars

\* C17 witness: a read that completed while a dashboard was showing has
\* replaced the dataset and cleared the committed analysis (the tab chosen in
\* that dashboard is still selected).
C17_Witness ==
    /\ fileData # Null
    /\ fileData.name = Files[2].name
    /\ analysis = Null
    /\ activeTab = "quality"

\* C18: resetAnalysis sets fileData, analysis and error to null and the tab to
\* 'summary', and leaves loading, the requests in flight and the pending
\* reads as they are.
C18_ResetFrame ==
    [][resetAnalysis =>
          /\ fileData' = Null
          /\ analysis' = Null
          /\ error' = Null
          /\ activeTab' = "summary"
          /\ loading' = loading
          /\ requests' = requests
          /\ reads' = reads
          /\ ~crashed']_vars

\* C18 witness: everything is cleared while a run and a read started before
\* the reset are still under way.
C18_Witness ==
    /\ fileData = Null
    /\ analysis = Null
    /\ error = Null
    /\ activeTab = "summary"
    /\ loading
    /\ requests # <<>>
    /\ reads # <<>>

\* C19: no handler and no render of the current view ever throws an uncaught
\* exception.
C19_NeverThrows == ~crashed

\* C20: in both pages, whenever the error banner is shown a dismiss action is
\* available, and dismissing sets error to null and leaves fileData, analysis,
\* loading and activeTab as they are.
C20_Dismissible ==
    /\ [](ErrorShown => DismissEnabled)
    /\ [][dismissError =>
             /\ error' = Null
             /\ fileData' = fileData
             /\ analysis' = analysis
             /\ loading' = loading
             /\ activeTab' = activeTab]_vars

\* Nothing was dropped, or a file that is CSV neither by media type nor by
\* name.
NotCsv(file) ==
    \/ file = Null
    \/ /\ file.type # "text/csv"
       /\ \/ Len(file.name) < 4
          \/ SubSeq(file.name, Len(file.name) - 3, Len(file.name)) # <<".", "c", "s", "v">>

Droppable == {disk[i] : i \in 1..Len(disk)} \cup {Null}

\* C21: dropping nothing, or a file that is not CSV, sets the upload-type
\* error, starts no read and leaves fileData and analysis as they were.
C21_BadDropRejected ==
    [][\A file \in Droppable :
          (handleDragDrop(file) /\ NotCsv(file)) =>
              /\ error' = TYPE_ERROR
              /\ reads' = reads
              /\ fileData' = fileData
              /\ analysis' = analysis]_vars

\* C21 witness: the upload-type error is showing next to a loaded dataset,
\* with no read under way.
C21_Witness ==
    /\ error = TYPE_ERROR
    /\ fileData # Null
    /\ analysis = Null
    /\ reads = <<>>

\* C22: the loaded dataset never comes from a file that is CSV neither by
\* media type nor by name.
C22_OnlyCsvLoaded ==
    fileData # Null =>
        \A i \in 1..Len(disk) : disk[i].name = fileData.name => ~NotCsv(disk[i])

SectionFields == {"dataQuality", "statistics", "correlations", "patterns", "insights"}

\* The report file, decoded.
Decoded(doc) ==
    [k \in DOMAIN doc |->
        IF k \in SectionFields THEN Destringify(doc[k]) ELSE doc[k]]

\* C23: a report is written only while analysis and fileData are set; decoded,
\* its six sections equal those of the committed analysis and its fileName is
\* the dataset's name; writing it changes no state of the component.
C23_ReportRoundTrip ==
    /\ [](download # Null =>
            /\ analysis # Null /\ fileData # Null
            /\ Decoded(download).fileName = fileData.name
            /\ "timestamp" \in DOMAIN download
            /\ Decoded(download).summary = analysis.summary
            /\ \A k \in SectionFields : Decoded(download)[k] = analysis[k])
    /\ [][download' # Null =>
             UNCHANGED <<fileData, analysis, loading, error, activeTab>>]_vars

\* C24: a pending read is never cancelled.  Starting another read leaves the
\* earlier ones pending, every pending read can complete next whatever was
\* started after it, and each completion that parses replaces fileData by its
\* own file's dataset and clears analysis: the dataset left at the end is that
\* of the read completing last.
C24_ReadsRace ==
    /\ [](~crashed => \A i \in 1..Len(reads) : ReadDeliverable(i))
    /\ [][Len(reads') > Len(reads) =>
             SubSeq(reads', 1, Len(reads)) = reads]_vars
    /\ [][Len(reads') < Len(reads) =>
             \E i \in 1..Len(reads) :
                /\ Loads(i)
                /\ ~parseCSVThrows(reads[i].text) =>
                      /\ fileData'.name = reads[i].name
                      /\ fileData'.size = Len(reads[i].text)
                      /\ analysis' = Null]_vars

\* C24 witness: over a loaded dataset the reads of two other files are
\* pending, the second started while the first was under way.
C24_Witness ==
    /\ ~crashed
    /\ Len(reads) = 2
    /\ reads[1].name # reads[2].name
    /\ ~parseCSVThrows(reads[1].text) /\ ~parseCSVThrows(reads[2].text)
    /\ fileData # Null
    /\ fileData.name \notin {reads[1].name, reads[2].name}

\* C25: a committed analysis always comes with a dataset, so the dashboard
\* never renders with fileData null.
C25_AnalysisHasDataset == analysis # Null => fileData # Null

\* C26: a committed analysis describes the dataset currently held.
C26_AnalysisMatchesDataset ==
    (analysis # Null /\ fileData # Null) =>
        /\ analysis.summary.totalRows = fileData.rows
        /\ analysis.summary.totalColumns = fileData.columns

\* C27: after a reset, completions of what was started before it repopulate
\* nothing.  While fileData is null every request in flight was started before
\* the reset that cleared it (analyze needs a dataset, and only a reset takes
\* one away), so a request completing in such a state leaves analysis null.
C27_ResetIsFinal ==
    [][(fileData = Null /\ analysis = Null /\ Len(requests') < Len(requests)) =>
          (analysis' = Null /\ fileData' = Null)]_vars

\* C28: right after a read that parses, or a sample load, error is null.
C28_LoadClearsError ==
    [][/\ \A i \in 1..Len(reads) :
             (Loads(i) /\ ~parseCSVThrows(reads[i].text)) => error' = Null
       /\ loadSampleData => error' = Null]_vars

\* C29: rendering the dashboard changes nothing.  The committed correlations
\* are in the payload's order, a tab switch leaves analysis as it is, and a
\* downloaded report lists the correlations in the order committed.
C29_RenderReadOnly ==
    /\ [][\A i \in 1..Len(requests), r \in 1..Len(service) :
             Commits(i, r) =>
                 analysis'.correlations =
                     Section(PayloadOf(r), "correlations", DefaultCorrelations)]_vars
    /\ [][(analysis # Null /\ activeTab' # activeTab /\ analysis' # Null) =>
             analysis' = analysis]_vars
    /\ [][download' # Null =>
             Destringify(download'.correlations) = analysis.correlations]_vars

\* C30: whenever analysis goes from null to non-null, the tab selected
\* afterwards is 'summary'.
C30_DashboardOpensOnSummary ==
    [][(analysis = Null /\ analysis' # Null) => activeTab' = "summary"]_vars

\* C30 witness: a run is in progress from an upload view that still carries
\* the tab chosen in an earlier dashboard, which a completing read had closed.
C30_Witness ==
    /\ analysis = Null
    /\ fileData # Null
    /\ activeTab # "summary"
    /\ Len(requests) = 1
    /\ loading

====
